---- MODULE Spec2Model ----
(***************************************************************************)
(* Model of src/src/ima_scraper.py: the crawl loop over the listing pages, *)
(* the per-page extraction of VIGENTE announcements and their TDR links,   *)
(* the two-stage extraction of the technical block of a PDF, and the final *)
(* ordering by deadline.                                                   *)
(***************************************************************************)
EXTENDS Integers, Sequences, FiniteSets, TLC

VARIABLES
    pc,         \* position of the run: "fetch" | "parse" | "done" (crawl), "call" | "return" (one function)
    page,       \* loop variable of scrape_convocatorias_vigentes
    html,       \* what get_html returned for `page` (None or Some(page content))
    page_items, \* what parse_page_convocatorias returned for the last parsed page
    all_items,  \* accumulator of scrape_convocatorias_vigentes
    result,     \* return value of scrape_convocatorias_vigentes (None until it returns)
    fetched,    \* page indices handed to get_html, in call order
    parsed,     \* page indices handed to parse_page_convocatorias, in call order
    arg,        \* argument of the function under study (function specifications)
    ret         \* its return value

vars == <<pc, page, html, page_items, all_items, result, fetched, parsed, arg, ret>>

\* Python's Optional: None, or a value.
None == [some |-> FALSE]
Some(v) == [some |-> TRUE, val |-> v]

Min(S) == CHOOSE x \in S : \A y \in S : x <= y
Max(S) == CHOOSE x \in S : \A y \in S : x >= y

(***************************************************************************)
(* BLOQUE 2: text of a PDF.  A text is a sequence of runs [t, n]: either   *)
(* n copies of the one-character string t, or the first n characters of    *)
(* the word t (the whole word when n = Len(t)).  Offsets are counted in    *)
(* characters, from 0, as Python does.                                     *)
(***************************************************************************)
Run(t, n) == [t |-> t, n |-> n]
Word(w) == Run(w, Len(w))
IsChar(t) == Len(t) = 1
IsWhole(r) == ~IsChar(r.t) /\ r.n = Len(r.t)
IsSpace(r) == r.t \in {" ", "\n"}

patterns ==
    << "CARACTERISTICAS TECNICAS",
       "CARACTERÍSTICAS TÉCNICAS",
       "CARACTERISTICAS TÉCNICAS",
       "CARACTERÍSTICAS TECNICAS",
       "ESPECIFICACIONES TECNICAS",
       "ESPECIFICACIONES TÉCNICAS" >>

end_markers ==
    << "CONDICIONES GENERALES",
       "CONDICIONES CONTRACTUALES",
       "CONDICIONES",
       "REQUISITOS",
       "OBLIGACIONES",
       "PLAZO DE ENTREGA",
       "PLAZO DE EJECUCION",
       "PLAZO DE EJECUCIÓN",
       "GARANTIAS",
       "GARANTÍAS",
       "FORMA DE PAGO" >>

max_len == 4000

\* str.upper() on the words and characters the texts are made of.
upper_word(w) ==
    CASE w = "características técnicas" -> "CARACTERÍSTICAS TÉCNICAS"
      [] w = "Especificaciones Tecnicas" -> "ESPECIFICACIONES TECNICAS"
      [] w = "Condiciones Generales" -> "CONDICIONES GENERALES"
      [] w = "Requisitos" -> "REQUISITOS"
      [] w = "x" -> "X"
      [] OTHER -> w

str_upper(text) == [i \in 1..Len(text) |-> Run(upper_word(text[i].t), text[i].n)]

RECURSIVE CharLen(_)
CharLen(text) == IF text = <<>> THEN 0 ELSE Head(text).n + CharLen(Tail(text))

\* Offset of the first character of run i.
Offset(text, i) == CharLen(SubSeq(text, 1, i - 1))

\* The substring p starts at the first character of run r.
StartsWith(r, p) ==
    /\ IsWhole(r)
    /\ \/ r.t = p
       \/ p = "CONDICIONES" /\ r.t \in {"CONDICIONES GENERALES", "CONDICIONES CONTRACTUALES"}

\* str.find(p, from): the lowest offset >= from at which p occurs, or -1.
str_find(text, p, from) ==
    LET hits == {i \in 1..Len(text) : StartsWith(text[i], p) /\ Offset(text, i) >= from}
    IN  IF hits = {} THEN -1 ELSE Offset(text, Min(hits))

\* text[a:b] for 0 <= a; a run cut by b keeps its first characters.
RECURSIVE Slice(_, _, _)
Slice(text, a, b) ==
    IF text = <<>> \/ b <= 0 THEN <<>>
    ELSE LET h == Head(text)
             lo == IF a > 0 THEN a ELSE 0
             hi == IF b < h.n THEN b ELSE h.n
         IN  (IF lo < hi THEN <<Run(h.t, hi - lo)>> ELSE <<>>)
                 \o Slice(Tail(text), a - h.n, b - h.n)

RECURSIVE lstrip(_)
lstrip(text) ==
    IF text # <<>> /\ IsSpace(Head(text)) THEN lstrip(Tail(text)) ELSE text

RECURSIVE rstrip(_)
rstrip(text) ==
    IF text # <<>> /\ IsSpace(text[Len(text)])
    THEN rstrip(SubSeq(text, 1, Len(text) - 1)) ELSE text

str_strip(text) == rstrip(lstrip(text))

\* for p in patterns: ... break -- index of the first pattern found, 0 if none.
RECURSIVE first_pattern(_, _)
first_pattern(normalized, k) ==
    IF k > Len(patterns) THEN 0
    ELSE IF str_find(normalized, patterns[k], 0) # -1 THEN k
    ELSE first_pattern(normalized, k + 1)

\* Variant of scan_end_markers: the last marker found wins (no min).
RECURSIVE scan_end_markers_last(_, _, _, _, _)
scan_end_markers_last(normalized, start_idx, from, k, end_idx) ==
    IF k > Len(end_markers) THEN end_idx
    ELSE LET pos == str_find(normalized, end_markers[k], from)
         IN  scan_end_markers_last(normalized, start_idx, from, k + 1,
                 IF pos # -1 /\ pos > start_idx THEN pos ELSE end_idx)

\* for m in end_markers: ... end_idx = min(end_idx, pos)
RECURSIVE scan_end_markers(_, _, _, _, _)
scan_end_markers(normalized, start_idx, from, k, end_idx) ==
    IF k > Len(end_markers) THEN end_idx
    ELSE LET pos == str_find(normalized, end_markers[k], from)
         IN  scan_end_markers(normalized, start_idx, from, k + 1,
                 IF pos # -1 /\ pos > start_idx /\ pos < end_idx THEN pos ELSE end_idx)

_extract_caracteristicas_block(full_text) ==
    IF full_text = <<>> THEN None
    ELSE LET normalized == str_upper(full_text)
             k == first_pattern(normalized, 1)
         IN  IF k = 0 THEN None
             ELSE LET chosen == patterns[k]
                      start_idx == str_find(normalized, chosen, 0)
                      end_idx == scan_end_markers(normalized, start_idx,
                                     start_idx + Len(chosen), 1, CharLen(full_text))
                      segment == str_strip(Slice(full_text, start_idx, end_idx))
                  IN  Some(IF CharLen(segment) > max_len
                           THEN Slice(segment, 0, max_len) \o <<Word("\n[...]")>>
                           ELSE segment)

(***************************************************************************)
(* extract_caracteristicas_from_pdf.  A PDF is what its collaborators      *)
(* answer: whether PdfReader opens it, what extract_text gives per page,   *)
(* whether convert_from_path rasterizes it, what image_to_string gives per *)
(* image.  A page or image answer is Raise or Text(t).  The returned       *)
(* record carries, besides (block, used_ocr), the collaborator calls made. *)
(***************************************************************************)
Raise == [raise |-> TRUE]
Text(t) == [raise |-> FALSE, text |-> t]

\* try: t = ... except: (omitted); if t.strip(): append(t)
RECURSIVE nonblank_texts(_)
nonblank_texts(answers) ==
    IF answers = <<>> THEN <<>>
    ELSE LET a == Head(answers)
         IN  (IF ~a.raise /\ str_strip(a.text) # <<>> THEN <<a.text>> ELSE <<>>)
                 \o nonblank_texts(Tail(answers))

\* "\n".join(texts)
RECURSIVE join_lines(_)
join_lines(texts) ==
    IF texts = <<>> THEN <<>>
    ELSE IF Len(texts) = 1 THEN texts[1]
    ELSE texts[1] \o <<Run("\n", 1)>> \o join_lines(Tail(texts))

\* Python truthiness of an Optional[str].
Truthy(block) == block.some /\ block.val # <<>>

Calls(name, n) == [i \in 1..n |-> name]

embedded_block(text_pages) ==
    IF text_pages # <<>> THEN _extract_caracteristicas_block(join_lines(text_pages)) ELSE None

\* Variant of ocr_stage: used_ocr is set before rasterizing.
ocr_stage_early_flag(pdf, enable_ocr_fallback, calls1) ==
    IF ~enable_ocr_fallback
    THEN [block |-> None, used_ocr |-> FALSE, calls |-> calls1]
    ELSE IF ~pdf.raster
    THEN [block |-> None, used_ocr |-> TRUE, calls |-> calls1 \o <<"convert_from_path">>]
    ELSE LET ocr_texts == nonblank_texts(pdf.images)
             calls2 == calls1 \o <<"convert_from_path">>
                           \o Calls("image_to_string", Len(pdf.images))
         IN  IF ocr_texts = <<>>
             THEN [block |-> None, used_ocr |-> TRUE, calls |-> calls2]
             ELSE [block |-> _extract_caracteristicas_block(join_lines(ocr_texts)),
                   used_ocr |-> TRUE, calls |-> calls2]

\* Intento 2: OCR (after calls1, the calls of the embedded-text stage).
ocr_stage(pdf, enable_ocr_fallback, calls1) ==
    IF ~enable_ocr_fallback
    THEN [block |-> None, used_ocr |-> FALSE, calls |-> calls1]
    ELSE IF ~pdf.raster
    THEN [block |-> None, used_ocr |-> FALSE, calls |-> calls1 \o <<"convert_from_path">>]
    ELSE LET ocr_texts == nonblank_texts(pdf.images)
             calls2 == calls1 \o <<"convert_from_path">>
                           \o Calls("image_to_string", Len(pdf.images))
         IN  IF ocr_texts = <<>>
             THEN [block |-> None, used_ocr |-> TRUE, calls |-> calls2]
             ELSE [block |-> _extract_caracteristicas_block(join_lines(ocr_texts)),
                   used_ocr |-> TRUE, calls |-> calls2]

\* Variant of extract_caracteristicas_from_pdf: the OCR stage runs even when the embedded
\* text gave the block, and its flag is reported.
extract_caracteristicas_always_ocr(pdf, enable_ocr_fallback) ==
    IF ~pdf.opens
    THEN [block |-> None, used_ocr |-> FALSE, calls |-> <<"PdfReader">>]
    ELSE LET text_pages == nonblank_texts(pdf.pages)
             calls1 == <<"PdfReader">> \o Calls("extract_text", Len(pdf.pages))
             block == embedded_block(text_pages)
             ocr == ocr_stage(pdf, enable_ocr_fallback, calls1)
         IN  IF Truthy(block)
             THEN [block |-> block, used_ocr |-> ocr.used_ocr, calls |-> ocr.calls]
             ELSE ocr

extract_caracteristicas_from_pdf(pdf, enable_ocr_fallback) ==
    IF ~pdf.opens
    THEN [block |-> None, used_ocr |-> FALSE, calls |-> <<"PdfReader">>]
    ELSE LET text_pages == nonblank_texts(pdf.pages)
             calls1 == <<"PdfReader">> \o Calls("extract_text", Len(pdf.pages))
             block == embedded_block(text_pages)
         IN  IF Truthy(block)
             THEN [block |-> block, used_ocr |-> FALSE, calls |-> calls1]
             ELSE ocr_stage(pdf, enable_ocr_fallback, calls1)

(***************************************************************************)
(* BLOQUE 3/4: deadlines and their order.  A date string dd/mm/yyyy is     *)
(* Fecha(d, m, y); a time string is Hora(h, mi, ap, sp) with sp telling    *)
(* whether a blank separates the minutes from AM/PM; "" is EMPTY.          *)
(***************************************************************************)
EMPTY == [s |-> ""]
Fecha(d, m, y) == [d |-> d, m |-> m, y |-> y]
Hora(h, mi, ap, sp) == [h |-> h, mi |-> mi, ap |-> ap, sp |-> sp]

IsLeap(y) == (y % 4 = 0 /\ y % 100 # 0) \/ y % 400 = 0
DaysIn(m, y) ==
    IF m = 2 THEN (IF IsLeap(y) THEN 29 ELSE 28)
    ELSE IF m \in {4, 6, 9, 11} THEN 30 ELSE 31

\* A datetime as minutes on a scale that grows with calendar order.
DateTime(y, m, d, H, M) == (((y * 12 + m) * 31 + d) * 24 + H) * 60 + M
datetime_min == DateTime(1, 1, 1, 0, 0)

\* datetime.strptime(f"{fecha} {hora}", "%d/%m/%Y %I:%M %p"): None stands for ValueError.
strptime(fecha, hora) ==
    IF /\ fecha # EMPTY
       /\ hora # EMPTY
       /\ fecha.y >= 1 /\ fecha.m \in 1..12 /\ fecha.d \in 1..DaysIn(fecha.m, fecha.y)
       /\ hora.h \in 1..12 /\ hora.mi \in 0..59 /\ hora.sp
    THEN Some(DateTime(fecha.y, fecha.m, fecha.d,
                       (hora.h % 12) + (IF hora.ap = "PM" THEN 12 ELSE 0), hora.mi))
    ELSE None

sort_key(item) ==
    LET fecha == item.fecha_limite
        hora == IF item.hora_limite = EMPTY THEN Hora(0, 0, "AM", TRUE) ELSE item.hora_limite
        dt == strptime(fecha, hora)
    IN  IF dt.some THEN dt.val ELSE datetime_min

\* sorted(..., key=sort_key) is ascending by key and stable.  It is computed as an
\* insertion sort: record x goes into the sorted list s after every record whose key is
\* <= its own (they are a prefix of s).
insert_sorted(x, s) ==
    LET k == Cardinality({i \in DOMAIN s : sort_key(s[i]) <= sort_key(x)})
    IN  SubSeq(s, 1, k) \o <<x>> \o SubSeq(s, k + 1, Len(s))

\* The first n records, sorted.  (The one-element set binds the sorted prefix to its
\* value, computed once.)
RECURSIVE sort_prefix(_, _)
sort_prefix(convocatorias, n) ==
    IF n = 0 THEN <<>>
    ELSE CHOOSE r \in
             {insert_sorted(convocatorias[n], s) : s \in {sort_prefix(convocatorias, n - 1)}} :
             TRUE

sort_convocatorias(convocatorias) == sort_prefix(convocatorias, Len(convocatorias))

(***************************************************************************)
(* Specifications of one function call: the argument is drawn from a       *)
(* bounded set, the call stores the return value.                          *)
(***************************************************************************)
START_PAGE == 1
MAX_PAGES == 30

CrawlIdle ==
    /\ page = START_PAGE /\ html = None /\ page_items = <<>> /\ all_items = <<>>
    /\ result = None /\ fetched = <<>> /\ parsed = <<>>

crawl_vars == <<page, html, page_items, all_items, result, fetched, parsed>>

SeqsUpTo(S, n) == UNION {[1..k -> S] : k \in 0..n}

\* ---- _extract_caracteristicas_block ----
MaxRuns == 4
LongRun == 3990

TextRuns ==
    { Word("ESPECIFICACIONES TECNICAS"), Word("CARACTERISTICAS TECNICAS"),
      Word("características técnicas"), Word("CONDICIONES GENERALES"),
      Word("Requisitos"), Run(" ", 1), Run("x", 1), Run("x", LongRun) }

Texts == SeqsUpTo(TextRuns, MaxRuns)

BlockInit == pc = "call" /\ arg \in Texts /\ ret = None /\ CrawlIdle

BlockCall ==
    /\ pc = "call"
    /\ ret' = _extract_caracteristicas_block(arg)
    /\ pc' = "return"
    /\ UNCHANGED <<arg, crawl_vars>>

SpecBlock == BlockInit /\ [][BlockCall]_vars

\* ---- extract_caracteristicas_from_pdf ----
MaxPdfPages == 2

BlockText ==
    << Word("CARACTERISTICAS TECNICAS"), Run("x", 1), Word("CONDICIONES GENERALES"), Run("x", 1) >>

PageAnswers == { Raise, Text(<<Run(" ", 1)>>), Text(<<Run("x", 1)>>), Text(BlockText) }

Pdfs ==
    {[opens |-> FALSE, pages |-> <<>>, raster |-> FALSE, images |-> <<>>]}
    \cup {[opens |-> TRUE, pages |-> ps, raster |-> FALSE, images |-> <<>>] :
             ps \in SeqsUpTo(PageAnswers, MaxPdfPages)}
    \cup {[opens |-> TRUE, pages |-> ps, raster |-> TRUE, images |-> im] :
             ps \in SeqsUpTo(PageAnswers, MaxPdfPages),
             im \in SeqsUpTo(PageAnswers, MaxPdfPages)}

PdfInit ==
    /\ pc = "call"
    /\ arg \in {[pdf |-> d, enable_ocr_fallback |-> e] : d \in Pdfs, e \in BOOLEAN}
    /\ ret = None
    /\ CrawlIdle

PdfCall ==
    /\ pc = "call"
    /\ ret' = extract_caracteristicas_from_pdf(arg.pdf, arg.enable_ocr_fallback)
    /\ pc' = "return"
    /\ UNCHANGED <<arg, crawl_vars>>

SpecPdf == PdfInit /\ [][PdfCall]_vars

\* ---- sort_convocatorias ----
MaxSortLen == 3

Deadlines ==
    { [fecha_limite |-> Fecha(20, 12, 2025), hora_limite |-> Hora(4, 30, "PM", TRUE)],
      [fecha_limite |-> Fecha(20, 12, 2025), hora_limite |-> Hora(12, 0, "AM", TRUE)],
      [fecha_limite |-> Fecha(25, 12, 2025), hora_limite |-> EMPTY],
      [fecha_limite |-> Fecha(31, 2, 2025), hora_limite |-> Hora(9, 0, "AM", TRUE)],
      [fecha_limite |-> Fecha(19, 12, 2025), hora_limite |-> Hora(4, 30, "PM", FALSE)],
      [fecha_limite |-> EMPTY, hora_limite |-> EMPTY] }

\* Records to sort: the k-th carries numero k.
SortInputs ==
    {[k \in 1..Len(ds) |-> [numero |-> k, fecha_limite |-> ds[k].fecha_limite,
                            hora_limite |-> ds[k].hora_limite]] :
        ds \in SeqsUpTo(Deadlines, MaxSortLen)}

SortInit == pc = "call" /\ arg \in SortInputs /\ ret = None /\ CrawlIdle

SortCall ==
    /\ pc = "call"
    /\ ret' = Some(sort_convocatorias(arg))
    /\ pc' = "return"
    /\ UNCHANGED <<arg, crawl_vars>>

SpecSort == SortInit /\ [][SortCall]_vars

(***************************************************************************)
(* BLOQUE 3: one listing page.  A page is [rows, hrefs]: rows are its <tr> *)
(* elements, each telling whether its text holds "SOLICITUD DE COTIZACION" *)
(* and which line, if any, reaches the deadline branch (a line with a      *)
(* dd/mm/yyyy date); hrefs are its <a href> elements in document order,    *)
(* each with the kind of its target, its absolute URL and what the server  *)
(* answers when it is downloaded (None: 404 or transport error).           *)
(***************************************************************************)
\* .strip().upper() of the text between the trailing parentheses.
strip_upper(s) ==
    CASE s \in {"VIGENTE", "vigente", " Vigente "} -> "VIGENTE"
      [] s \in {"VENCIDO", "vencido"} -> "VENCIDO"
      [] OTHER -> s

hora_upper(hora) ==
    IF hora = EMPTY THEN EMPTY
    ELSE [hora EXCEPT !.ap = IF @ = "am" THEN "AM" ELSE IF @ = "pm" THEN "PM" ELSE @]

parse_plazo_cell(plazo) ==
    [fecha |-> plazo.fecha,
     hora |-> hora_upper(plazo.hora),
     estado |-> IF plazo.paren.some THEN strip_upper(plazo.paren.val) ELSE ""]

\* get_html: the body on success, None on 404 and on any RequestException.
get_html(resp) == IF resp.status = "ok" THEN Some(resp.body) ELSE None

\* download_pdf: the stored file on success, None on 404 and on any failure.
download_pdf(a) == a.served

convocatoria_rows(content) == SelectSeq(content.rows, LAMBDA r : r.heading)

EndsWithPdf(a) == a.kind \in {"convmc_pdf", "pdf"}

pdf_links(content) ==
    LET patron1 == SelectSeq(content.hrefs, LAMBDA a : a.kind = "convmc_pdf")
    IN  IF patron1 # <<>> THEN patron1 ELSE SelectSeq(content.hrefs, EndsWithPdf)

\* Variant of is_vigente: only the known closed status is filtered out.
is_vigente_closed_only(estado) == estado # "VENCIDO"

\* if estado != "VIGENTE": continue
is_vigente(estado) == estado = "VIGENTE"

\* Variant of link_of: the bound check is off by one.
link_of_short(i, links) == IF i + 1 < Len(links) THEN Some(links[i + 1]) ELSE None

\* if i < len(pdf_links): item["tdr_url"] = pdf_links[i]   (i counts from 0)
link_of(i, links) == IF i < Len(links) THEN Some(links[i + 1]) ELSE None

\* The body of the loop over convocatoria_rows: <<>> when the row is skipped, else <<item>>.
\* Fields row (the loop index i) and calls (collaborator calls of the PDF extraction)
\* are bookkeeping of the model.
row_item(i, row, links, page_number) ==
    LET p == IF row.plazo.some THEN parse_plazo_cell(row.plazo.val)
             ELSE [fecha |-> EMPTY, hora |-> EMPTY, estado |-> ""]
        item == [estado |-> p.estado, fecha_limite |-> p.fecha, hora_limite |-> p.hora,
                 pagina_origen |-> page_number, tdr_url |-> None, tdr_downloaded |-> FALSE,
                 caracteristicas_tecnicas |-> None, caracteristicas_tecnicas_ocr |-> FALSE,
                 row |-> i, calls |-> <<>>]
        a == link_of(i, links)
    IN  IF ~is_vigente(p.estado) THEN <<>>
        ELSE IF ~a.some THEN <<item>>
        ELSE LET pdf_path == download_pdf(a.val)
                 withurl == [item EXCEPT !.tdr_url = Some(a.val.url)]
             IN  IF ~pdf_path.some THEN <<withurl>>
                 ELSE LET r == extract_caracteristicas_from_pdf(pdf_path.val, TRUE)
                      IN  <<[withurl EXCEPT !.tdr_downloaded = TRUE,
                                            !.caracteristicas_tecnicas = r.block,
                                            !.caracteristicas_tecnicas_ocr = r.used_ocr,
                                            !.calls = r.calls]>>

RECURSIVE rows_from(_, _, _, _)
rows_from(i, rows, links, page_number) ==
    IF i >= Len(rows) THEN <<>>
    ELSE row_item(i, rows[i + 1], links, page_number)
             \o rows_from(i + 1, rows, links, page_number)

parse_page_convocatorias(content, page_number) ==
    rows_from(0, convocatoria_rows(content), pdf_links(content), page_number)

(***************************************************************************)
(* BLOQUE 4: scrape_convocatorias_vigentes.  The site is a function from   *)
(* page index to the responses the server may give for it.                 *)
(***************************************************************************)
\* The site answers for every index, beyond those the loop reaches too.
PageRange == START_PAGE..(START_PAGE + MAX_PAGES)

\* Variant of in_range: the range runs one index too far.
in_range_inclusive(p) == p <= START_PAGE + MAX_PAGES

\* for page in range(START_PAGE, START_PAGE + MAX_PAGES)
in_range(p) == p < START_PAGE + MAX_PAGES

\* Variants of stops_crawl: without the exemption of the first page; exempting page 2 too.
stops_crawl_any_page(items, p) == items = <<>>
stops_crawl_after_second(items, p) == items = <<>> /\ p > START_PAGE + 1

\* if not page_items and page > START_PAGE: break
stops_crawl(items, p) == items = <<>> /\ p > START_PAGE

\* Variant of after_fetch: a failed request is tried again.
after_fetch_retry(h) == IF h = None THEN "fetch" ELSE "parse"

\* if html is None: break
after_fetch(h) == IF h = None THEN "done" ELSE "parse"

CrawlInit ==
    /\ pc = "fetch" /\ page = START_PAGE /\ html = None /\ page_items = <<>>
    /\ all_items = <<>> /\ result = None /\ fetched = <<>> /\ parsed = <<>>
    /\ arg = None /\ ret = None

\* The for statement and get_html: the next page is requested, or the range is
\* exhausted and the function returns; a None page breaks out of the loop.
GetHtml(Responses) ==
    /\ pc = "fetch"
    /\ IF in_range(page)
       THEN \E resp \in Responses[page] :
               /\ html' = get_html(resp)
               /\ fetched' = Append(fetched, page)
               /\ pc' = after_fetch(html')
               /\ result' = IF pc' = "done" THEN Some(sort_convocatorias(all_items))
                            ELSE result
       ELSE /\ pc' = "done" /\ result' = Some(sort_convocatorias(all_items))
            /\ UNCHANGED <<html, fetched>>
    /\ UNCHANGED <<page, page_items, all_items, parsed, arg, ret>>

\* parse_page_convocatorias, the break on an empty later page, extend and the next index.
ParsePage ==
    /\ pc = "parse"
    /\ page_items' = parse_page_convocatorias(html.val, page)
    /\ parsed' = Append(parsed, page)
    /\ IF stops_crawl(page_items', page)
       THEN /\ pc' = "done" /\ result' = Some(sort_convocatorias(all_items))
            /\ UNCHANGED <<page, all_items>>
       ELSE /\ pc' = "fetch" /\ result' = result
            /\ all_items' = all_items \o page_items'
            /\ page' = page + 1
    /\ UNCHANGED <<html, fetched, arg, ret>>

\* ---- the listing as a site of at most MaxSitePages pages with rows ----
MaxSitePages == 2
MaxRows == 2

Plazo(fecha, hora, paren) == [fecha |-> fecha, hora |-> hora, paren |-> paren]
Row(heading, plazo) == [heading |-> heading, plazo |-> plazo]

RowKinds ==
    { Row(TRUE, Some(Plazo(Fecha(20, 12, 2025), Hora(4, 30, "PM", TRUE), Some("VIGENTE")))),
      Row(TRUE, Some(Plazo(Fecha(18, 12, 2025), EMPTY, Some("vigente")))),
      Row(TRUE, Some(Plazo(Fecha(19, 12, 2025), Hora(10, 0, "am", TRUE), Some("VENCIDO")))),
      Row(TRUE, Some(Plazo(Fecha(21, 12, 2025), Hora(9, 0, "AM", TRUE), None))),
      Row(TRUE, None),
      Row(FALSE, None) }

EmbeddedPdf ==
    [opens |-> TRUE, pages |-> <<Text(BlockText)>>, raster |-> TRUE, images |-> <<Text(BlockText)>>]
ScannedPdf ==
    [opens |-> TRUE, pages |-> <<Text(<<Run(" ", 1)>>)>>, raster |-> TRUE,
     images |-> <<Raise, Text(BlockText)>>]
BrokenPdf == [opens |-> FALSE, pages |-> <<>>, raster |-> FALSE, images |-> <<>>]

Href(kind, url, served) == [kind |-> kind, url |-> url, served |-> served]

EmptyPage == [rows |-> <<>>, hrefs |-> <<>>]

Failures == {[status |-> "404"], [status |-> "error"]}

StatusPages ==
    {[rows |-> rs, hrefs |-> hs] :
        rs \in SeqsUpTo(RowKinds, MaxRows),
        hs \in {<<Href("convmc_pdf", "a.pdf", Some(EmbeddedPdf))>>}}

StatusSite ==
    [p \in PageRange |->
        Failures \cup {[status |-> "ok", body |-> c] :
                          c \in IF p <= MaxSitePages THEN StatusPages ELSE {EmptyPage}}]

Fetch == GetHtml(StatusSite)

Init == CrawlInit
Next == Fetch \/ ParsePage
Spec == Init /\ [][Next]_vars

\* ---- a listing whose first page varies in its links and their documents ----
MaxLinks == 2

OpenRow == Row(TRUE, Some(Plazo(Fecha(20, 12, 2025), Hora(4, 30, "PM", TRUE), Some("VIGENTE"))))
ClosedRow == Row(TRUE, Some(Plazo(Fecha(19, 12, 2025), Hora(10, 0, "am", TRUE), Some("VENCIDO"))))

HrefKinds ==
    { Href("convmc_pdf", "convmc-files/a.pdf", Some(EmbeddedPdf)),
      Href("convmc_pdf", "convmc-files/b.pdf", Some(ScannedPdf)),
      Href("pdf", "docs/c.pdf", Some(BrokenPdf)),
      Href("pdf", "docs/d.pdf", None),
      Href("other", "s---2.html", None) }

LinkPages ==
    {[rows |-> rs, hrefs |-> hs] :
        rs \in SeqsUpTo({OpenRow, ClosedRow}, MaxRows),
        hs \in SeqsUpTo(HrefKinds, MaxLinks)}

ScannedPage ==
    [rows |-> <<OpenRow>>, hrefs |-> <<Href("convmc_pdf", "convmc-files/b.pdf", Some(ScannedPdf))>>]

LinkSite ==
    [p \in PageRange |->
        Failures \cup {[status |-> "ok", body |-> c] :
                          c \in IF p = START_PAGE THEN LinkPages
                                ELSE IF p <= MaxSitePages THEN {ScannedPage, EmptyPage}
                                ELSE {EmptyPage}}]

FetchLinks == GetHtml(LinkSite)

NextLinks == FetchLinks \/ ParsePage
SpecLinks == Init /\ [][NextLinks]_vars

\* ---- a listing that never ends: every page may hold an announcement ----
OnePage == [rows |-> <<OpenRow>>, hrefs |-> <<>>]

LongSite ==
    [p \in PageRange |->
        Failures \cup {[status |-> "ok", body |-> c] : c \in {OnePage, EmptyPage}}]

FetchLong == GetHtml(LongSite)

NextLong == FetchLong \/ ParsePage
\* One thread runs the loop and every request has a timeout: a step that can be taken is taken.
SpecLong == Init /\ [][NextLong]_vars /\ WF_vars(NextLong)

(***************************************************************************)
(* Properties.  Vocabulary shared by the statements below.                 *)
(***************************************************************************)
Last(s) == s[Len(s)]
Range(s) == {s[i] : i \in DOMAIN s}
Count(s, x) == Cardinality({i \in DOMAIN s : s[i] = x})
IsPermutation(a, b) ==
    Len(a) = Len(b) /\ \A x \in Range(a) \cup Range(b) : Count(a, x) = Count(b, x)

\* html holds the page that was parsed last, and page_items what it yielded.
PageSeen == parsed # <<>> /\ html.some /\ fetched # <<>> /\ Last(fetched) = Last(parsed)

\* The rows of a page that carry the announcement heading, in document order.
HeadRows(content) == SelectSeq(content.rows, LAMBDA r : r.heading)

\* A row is OPEN when its deadline line ends in a parenthesised VIGENTE, whatever the case.
OpenSpellings == {"VIGENTE", "vigente", " Vigente "}
IsOpenRow(r) ==
    r.heading /\ r.plazo.some /\ r.plazo.val.paren.some /\ r.plazo.val.paren.val \in OpenSpellings

\* Positions, among the heading rows, of the OPEN ones; Nth(P, j) is the j-th smallest.
OpenPos(content) ==
    {i \in 1..Len(HeadRows(content)) : IsOpenRow(HeadRows(content)[i])}
Nth(P, j) == CHOOSE x \in P : Cardinality({y \in P : y < x}) = j - 1

InOrder(s) == \A i, j \in DOMAIN s : i < j => sort_key(s[i]) <= sort_key(s[j])

\* C1: every record accumulated and every record returned has estado = "VIGENTE", and a
\* page yields exactly one record per OPEN row: rows with another status, or with a
\* status that could not be parsed, yield none.
C1_OnlyVigente ==
    /\ \A k \in DOMAIN all_items : all_items[k].estado = "VIGENTE"
    /\ result.some => \A k \in DOMAIN result.val : result.val[k].estado = "VIGENTE"
    /\ PageSeen =>
          /\ Len(page_items) = Cardinality(OpenPos(html.val))
          /\ \A k \in DOMAIN page_items : page_items[k].estado = "VIGENTE"

\* The run has returned a non-empty list and the last page parsed held a VENCIDO row and
\* a row without a parsable status.
C1_Witness ==
    /\ pc = "done" /\ result.some /\ result.val # <<>> /\ PageSeen
    /\ \E r \in Range(HeadRows(html.val)) :
          r.plazo.some /\ r.plazo.val.paren = Some("VENCIDO")
    /\ \E r \in Range(HeadRows(html.val)) : ~r.plazo.some \/ ~r.plazo.val.paren.some

\* C2: a fetched page after the first with no OPEN row stops the crawl at that page (it is
\* the last page requested, the run has returned, nothing of that page is accumulated);
\* the first page with no OPEN row does not stop it: the loop stands at page 2.
C2_EmptyPageRule ==
    (PageSeen /\ OpenPos(html.val) = {}) =>
        IF Last(parsed) > START_PAGE
        THEN /\ pc = "done" /\ result.some
             /\ Last(fetched) = Last(parsed)
             /\ \A k \in DOMAIN all_items : all_items[k].pagina_origen # Last(parsed)
             /\ \A k \in DOMAIN result.val : result.val[k].pagina_origen # Last(parsed)
        ELSE /\ pc = "fetch" /\ page = START_PAGE + 1 /\ in_range(page)
             /\ result = None

\* Page 1 had no OPEN row, page 2 was requested all the same, had none either, and the
\* crawl stopped there.
C2_Witness ==
    /\ pc = "done" /\ PageSeen /\ OpenPos(html.val) = {}
    /\ fetched = <<START_PAGE, START_PAGE + 1>> /\ parsed = fetched
    /\ all_items = <<>>

\* C3: when get_html gives None for page k the run is over: k was requested once and is
\* the last request, the requests were 1..k, k was not parsed, and the records of the
\* pages before k are returned, ordered by sort_convocatorias.
C3_FetchFailureStops ==
    (html = None /\ fetched # <<>>) =>
        LET k == Last(fetched)
        IN  /\ pc = "done"
            /\ \A i \in DOMAIN fetched : fetched[i] = START_PAGE + i - 1
            /\ \A i \in DOMAIN parsed : parsed[i] < k
            /\ \A i \in DOMAIN all_items : all_items[i].pagina_origen < k
            /\ parsed # <<>> =>
                  SubSeq(all_items, Len(all_items) - Len(page_items) + 1, Len(all_items))
                      = page_items
            /\ result.some /\ IsPermutation(result.val, all_items) /\ InOrder(result.val)

\* The third request failed after two pages gave records, which the result reorders.
C3_Witness ==
    /\ html = None /\ Len(fetched) = 3 /\ result.some
    /\ Len(result.val) >= 2 /\ result.val # all_items

\* C9 as claimed: a fetched page without any heading row stops the crawl at that page,
\* whatever its index.
C9_StopsOnAnyPage ==
    (PageSeen /\ HeadRows(html.val) = <<>>) =>
        pc = "done" /\ Last(fetched) = Last(parsed)

\* C9 as amended: a fetched page without any heading row yields nothing; after the first
\* page it stops the crawl there, as any page without records does; as the first page it
\* does not, and the loop stands at page 2.
C9_NoHeadingRule ==
    (PageSeen /\ HeadRows(html.val) = <<>>) =>
        /\ page_items = <<>>
        /\ IF Last(parsed) > START_PAGE
           THEN pc = "done" /\ result.some /\ Last(fetched) = Last(parsed)
           ELSE pc = "fetch" /\ page = START_PAGE + 1 /\ in_range(page) /\ result = None

\* Page 2 held rows but none with the heading, after a first page that gave records.
C9_Witness ==
    /\ PageSeen /\ HeadRows(html.val) = <<>> /\ html.val.rows # <<>>
    /\ Last(parsed) = START_PAGE + 1 /\ pc = "done" /\ all_items # <<>>

\* ---- links and documents (SpecLinks) ----
HasHeading(text) ==
    \E i \in DOMAIN text : IsWhole(text[i]) /\ upper_word(text[i].t) \in Range(patterns)

\* The embedded-text stage finds the block: some page gives text that holds a heading.
EmbeddedFinds(pdf) ==
    pdf.opens /\ \E i \in DOMAIN pdf.pages : ~pdf.pages[i].raise /\ HasHeading(pdf.pages[i].text)

NoOcrCalls(calls) ==
    "convert_from_path" \notin Range(calls) /\ "image_to_string" \notin Range(calls)

\* C5 as claimed: the j-th retained record of a page has the j-th candidate link of the
\* page, and none when the page has fewer than j links.
C5_ByRetainedPosition ==
    PageSeen =>
        LET links == pdf_links(html.val)
        IN  \A j \in DOMAIN page_items :
                page_items[j].tdr_url =
                    IF j <= Len(links) THEN Some(links[j].url) ELSE None

\* C5 as amended: the record retained from the i-th heading row of a page (every heading
\* row counted, whatever its status) has the i-th candidate link of the page, and none
\* when the page has fewer than i links; the records without a link are the trailing ones.
C5_ByRowPosition ==
    PageSeen =>
        LET links == pdf_links(html.val)
            P == OpenPos(html.val)
        IN  /\ Len(page_items) = Cardinality(P)
            /\ \A j \in DOMAIN page_items :
                  page_items[j].tdr_url =
                      IF Nth(P, j) <= Len(links) THEN Some(links[Nth(P, j)].url) ELSE None
            /\ \A i, j \in DOMAIN page_items :
                  i < j /\ ~page_items[i].tdr_url.some => ~page_items[j].tdr_url.some

\* A record retained after a skipped row has a link, the one at its row's position.
C5_Witness ==
    /\ PageSeen
    /\ \E j \in DOMAIN page_items :
          /\ Nth(OpenPos(html.val), j) > j
          /\ page_items[j].tdr_url.some
          /\ Len(pdf_links(html.val)) >= 2
          /\ pdf_links(html.val)[1].url # pdf_links(html.val)[2].url

\* C7: a record whose document gives the block in the embedded-text stage carries that
\* block with caracteristicas_tecnicas_ocr = FALSE, and neither convert_from_path nor
\* image_to_string was called for it; in the accumulator and in the result a record keeps
\* the flag of its own document: TRUE only when rasterization was called for it.
C7_EmbeddedNeverOcr ==
    /\ PageSeen =>
          LET links == pdf_links(html.val)
              P == OpenPos(html.val)
          IN  \A j \in DOMAIN page_items :
                  (/\ j <= Cardinality(P)
                   /\ Nth(P, j) <= Len(links)
                   /\ links[Nth(P, j)].served.some
                   /\ EmbeddedFinds(links[Nth(P, j)].served.val))
                  => /\ page_items[j].caracteristicas_tecnicas.some
                     /\ ~page_items[j].caracteristicas_tecnicas_ocr
                     /\ NoOcrCalls(page_items[j].calls)
    /\ \A s \in {all_items, IF result.some THEN result.val ELSE <<>>} :
          \A k \in DOMAIN s :
              /\ NoOcrCalls(s[k].calls) => ~s[k].caracteristicas_tecnicas_ocr
              /\ s[k].caracteristicas_tecnicas_ocr => "convert_from_path" \in Range(s[k].calls)

\* A record with the block from embedded text stands between two records that needed OCR.
C7_Witness ==
    \E i, j, k \in DOMAIN all_items :
        /\ i < j /\ j < k
        /\ all_items[i].caracteristicas_tecnicas_ocr
        /\ all_items[j].caracteristicas_tecnicas.some
        /\ ~all_items[j].caracteristicas_tecnicas_ocr /\ NoOcrCalls(all_items[j].calls)
        /\ all_items[k].caracteristicas_tecnicas_ocr

\* ---- termination (SpecLong) ----
\* C4: the crawl ends, and at every moment the requests made are START_PAGE,
\* START_PAGE + 1, ... in this order, each once, at most MAX_PAGES of them.
C4_Terminates ==
    /\ <>(pc = "done")
    /\ [](/\ Len(fetched) <= MAX_PAGES
          /\ \A i \in DOMAIN fetched : fetched[i] = START_PAGE + i - 1)

\* Every one of the MAX_PAGES pages was fetched and gave a record; the run returned.
C4_Witness ==
    /\ pc = "done" /\ result.some
    /\ Len(fetched) = MAX_PAGES /\ Len(parsed) = MAX_PAGES /\ Len(all_items) = MAX_PAGES

\* ---- extract_caracteristicas_from_pdf (SpecPdf) ----
OcrFinds(pdf) ==
    \E i \in DOMAIN pdf.images : ~pdf.images[i].raise /\ HasHeading(pdf.images[i].text)

WithoutFailedImages(pdf) ==
    [pdf EXCEPT !.images = SelectSeq(pdf.images, LAMBDA a : ~a.raise)]

\* C8: with the fallback enabled and no block from the embedded text, the call returns
\* (None, FALSE) without rasterizing when the document does not open, (None, FALSE) when
\* rasterization fails, (None, TRUE) when recognition gives no text with a heading, and
\* (block, TRUE) when it does; recognition is tried on every image, and the block is the
\* one the document without its failing images gives.
C8_FallbackOutcomes ==
    (pc = "return" /\ arg.enable_ocr_fallback /\ ~EmbeddedFinds(arg.pdf)) =>
        LET pdf == arg.pdf
            tried == Count(ret.calls, "image_to_string")
        IN  /\ ~pdf.opens =>
                  ret.block = None /\ ~ret.used_ocr /\ NoOcrCalls(ret.calls)
            /\ (pdf.opens /\ ~pdf.raster) =>
                  /\ ret.block = None /\ ~ret.used_ocr
                  /\ Count(ret.calls, "convert_from_path") = 1 /\ tried = 0
            /\ (pdf.opens /\ pdf.raster /\ ~OcrFinds(pdf)) =>
                  ret.block = None /\ ret.used_ocr
            /\ (pdf.opens /\ pdf.raster /\ OcrFinds(pdf)) =>
                  ret.block.some /\ ret.used_ocr
            /\ (pdf.opens /\ pdf.raster) =>
                  /\ tried = Len(pdf.images)
                  /\ ret.block =
                        extract_caracteristicas_from_pdf(WithoutFailedImages(pdf), TRUE).block

\* Recognition failed on the first image and found the block on the second.
C8_Witness ==
    /\ pc = "return" /\ arg.enable_ocr_fallback /\ ~EmbeddedFinds(arg.pdf)
    /\ arg.pdf.opens /\ arg.pdf.pages # <<>> /\ arg.pdf.raster
    /\ Len(arg.pdf.images) = 2 /\ arg.pdf.images[1].raise
    /\ ret.block.some /\ ret.used_ocr

\* ---- sort_convocatorias (SpecSort) ----
ValidDate(f) == f # EMPTY /\ f.y >= 1 /\ f.m \in 1..12 /\ f.d \in 1..DaysIn(f.m, f.y)

\* The deadline of a record as the data model orders it: a valid date without a time is
\* that date at midnight; a missing or unparseable deadline is the earliest moment.
Deadline(item) ==
    IF ValidDate(item.fecha_limite) /\ item.hora_limite = EMPTY
    THEN DateTime(item.fecha_limite.y, item.fecha_limite.m, item.fecha_limite.d, 0, 0)
    ELSE IF strptime(item.fecha_limite, item.hora_limite).some
    THEN strptime(item.fecha_limite, item.hora_limite).val
    ELSE datetime_min

\* C6: the returned list is a permutation of the argument, in non-decreasing order of
\* Deadline.
C6_SortLaw ==
    pc = "return" =>
        /\ IsPermutation(ret.val, arg)
        /\ \A i, j \in DOMAIN ret.val : i < j => Deadline(ret.val[i]) <= Deadline(ret.val[j])

\* ---- _extract_caracteristicas_block (SpecBlock) ----
IsHeadingRun(r) == IsWhole(r) /\ upper_word(r.t) \in Range(patterns)
IsEndRun(r) == IsWhole(r) /\ upper_word(r.t) \in Range(end_markers)

\* First run after run s that is a section-end marker, or one past the end.
EndAfter(text, s) ==
    LET E == {j \in (s + 1)..Len(text) : IsEndRun(text[j])}
    IN  IF E = {} THEN Len(text) + 1 ELSE Min(E)

\* text without its trailing blank runs.
TrimRight(text) ==
    LET K == {i \in DOMAIN text : ~IsSpace(text[i])}
    IN  IF K = {} THEN <<>> ELSE SubSeq(text, 1, Max(K))

\* a is t cut after some character.
IsCut(a, t) ==
    /\ a # <<>> /\ Len(a) <= Len(t)
    /\ \A i \in 1..(Len(a) - 1) : a[i] = t[i]
    /\ Last(a).t = t[Len(a)].t /\ Last(a).n <= t[Len(a)].n

\* out is the block that starts at run s of text: it runs up to the next section-end
\* marker after s, or to the end, without its trailing blanks; beyond max_len characters
\* it is cut to max_len and closed by "\n[...]".
IsBlockFrom(text, s, out) ==
    LET body == TrimRight(SubSeq(text, s, EndAfter(text, s) - 1))
    IN  IF CharLen(body) <= max_len THEN out = body
        ELSE /\ Last(out) = Word("\n[...]")
             /\ CharLen(out) = max_len + 6
             /\ IsCut(SubSeq(out, 1, Len(out) - 1), body)

====
